---- MODULE Spec2Model ----
(***************************************************************************)
(* The MODA container codec (moda_compiler.py, moda_decompiler.py) and the *)
(* playback engine ModaPlayer (moda_player.py).                            *)
(*                                                                         *)
(* A byte is a number in 0..255, a byte string or a text a sequence of     *)
(* them; file names and JSON text are written as their ASCII codes, with   *)
(* the text they spell in a comment.  A directory is a function from file  *)
(* names to file contents.                                                 *)
(***************************************************************************)
EXTENDS Integers, Sequences, FiniteSets, TLC

VARIABLES
    \* the compiler's inputs and the container file on disk
    tracks,          \* ModaCompilerApp.tracks: the track paths, in order
    mode_arg,        \* the play_mode argument of build_moda_file
    thumbnail,       \* ModaCompilerApp.thumbnail: a path or None
    output_file,     \* the bytes at build_moda_file's output_path (None: no such file)
    moda_file,       \* the bytes of the file opened for decoding (None: none opened)
    \* the decompiler
    output_dir,      \* the files of extract_moda's output_dir
    extract_result,  \* what the last extract_moda returned or raised
    \* the player
    play_mode, tracks_meta, thumbnail_path, temp_dir,
    sys_tmp,         \* the files of tempfile.gettempdir()
    load_result,     \* what the last load_moda returned or raised
    current_track, is_playing, sound_objects,
    channels,        \* the mixer's channels
    events,          \* pending pygame.USEREVENT events in the event queue
    audio_threads,   \* the started _play_sound threads that have not played yet
    last             \* the operation that made the last step

codec_vars  == <<tracks, mode_arg, thumbnail, output_file, moda_file, output_dir, extract_result>>
loader_vars == <<play_mode, tracks_meta, thumbnail_path, temp_dir, sys_tmp, load_result>>
engine_vars == <<current_track, is_playing, sound_objects, channels, events, audio_threads>>
vars == <<codec_vars, loader_vars, engine_vars, last>>

\* None, for a path or a file name: the empty text (Python tests both by truth value)
None == <<>>

Min(a, b) == IF a < b THEN a ELSE b

(***************************************************************************)
(* Bounds of the model.                                                    *)
(***************************************************************************)
MaxTracks == 2       \* tracks given to build_moda_file in the codec specification
MaxPlayTracks == 3   \* tracks of a container of the playback specification
MaxEvents == 2       \* pending end events in the event queue
MaxThreads == 2      \* _play_sound threads that have not played yet
MaxBusy == 2         \* channels playing at a time

(***************************************************************************)
(* Text constants.                                                         *)
(***************************************************************************)
MODA_MAGIC    == <<77, 79, 68, 65>>                              \* b'MODA'
KeyPlayMode   == <<112, 108, 97, 121, 95, 109, 111, 100, 101>>   \* "play_mode"
KeyTracks     == <<116, 114, 97, 99, 107, 115>>                  \* "tracks"
KeyThumbnail  == <<116, 104, 117, 109, 98, 110, 97, 105, 108>>   \* "thumbnail"
KeyFile       == <<102, 105, 108, 101>>                          \* "file"
KeyOrder      == <<111, 114, 100, 101, 114>>                     \* "order"
Sequential    == <<115, 101, 113, 117, 101, 110, 116, 105, 97, 108>>  \* "sequential"
Parallel      == <<112, 97, 114, 97, 108, 108, 101, 108>>        \* "parallel"
MetaJsonName  == <<109, 101, 116, 97, 46, 106, 115, 111, 110>>   \* "meta.json"
TxtNull       == <<110, 117, 108, 108>>                          \* null
TxtTrue       == <<116, 114, 117, 101>>                          \* true
TxtFalse      == <<102, 97, 108, 115, 101>>                      \* false
Whitespace    == {32, 9, 10, 13}                                 \* " \t\n\r"
DigitChars    == 48..57                                          \* "0".."9"

(***************************************************************************)
(* struct.pack / struct.unpack, big-endian.                                *)
(***************************************************************************)
PackI(n) == <<(n \div 16777216) % 256, (n \div 65536) % 256, (n \div 256) % 256, n % 256>>
PackH(n) == <<(n \div 256) % 256, n % 256>>
\* struct.unpack raises struct.error unless the buffer has exactly the size
UnpackOk(b, size) == Len(b) = size
UnpackI(b) == b[1] * 16777216 + b[2] * 65536 + b[3] * 256 + b[4]
UnpackH(b) == b[1] * 256 + b[2]

(***************************************************************************)
(* os.path.basename: what follows the last "/".                            *)
(***************************************************************************)
Slashes(p) == {i \in 1..Len(p) : p[i] = 47}
LastSlash(p) == IF Slashes(p) = {} THEN 0
                ELSE CHOOSE i \in Slashes(p) : \A j \in Slashes(p) : j <= i
basename(p) == SubSeq(p, LastSlash(p) + 1, Len(p))

(***************************************************************************)
(* Directories.                                                            *)
(***************************************************************************)
EmptyDir == [n \in {} |-> <<>>]
WriteFile(dir, name, data) ==
    [n \in (DOMAIN dir) \cup {name} |-> IF n = name THEN data ELSE dir[n]]

(***************************************************************************)
(* JSON values: json.dumps(meta, indent=2) and json.loads.                 *)
(***************************************************************************)
JNull == [k |-> "null"]
JBool(b) == [k |-> "bool", b |-> b]
JStr(s) == [k |-> "str", s |-> s]
JNum(n) == [k |-> "num", n |-> n]
JArr(items) == [k |-> "arr", items |-> items]
\* a dict: its (key, value) pairs in insertion order, keys distinct
JObj(members) == [k |-> "obj", members |-> members]

\* d[key] = val on a dict: replaces the value of a present key, else appends
DictSet(members, key, val) ==
    IF \E i \in 1..Len(members) : members[i][1] = key
    THEN [i \in 1..Len(members) |->
            IF members[i][1] = key THEN <<key, val>> ELSE members[i]]
    ELSE Append(members, <<key, val>>)
HasKey(obj, key) == \E i \in 1..Len(obj.members) : obj.members[i][1] = key
\* dict.get(key, default)
Get(obj, key, default) ==
    IF HasKey(obj, key)
    THEN obj.members[CHOOSE i \in 1..Len(obj.members) : obj.members[i][1] = key][2]
    ELSE default

RECURSIVE Digits(_)
Digits(n) == IF n < 10 THEN <<48 + n>> ELSE Digits(n \div 10) \o <<48 + (n % 10)>>

RECURSIVE Spaces(_)
Spaces(n) == IF n = 0 THEN <<>> ELSE <<32>> \o Spaces(n - 1)
\* a line break and the indentation of nesting level lvl (indent=2)
NewLine(lvl) == <<10>> \o Spaces(2 * lvl)

RECURSIVE Dump(_, _), DumpItems(_, _, _), DumpMembers(_, _, _)
Dump(v, lvl) ==
    CASE v.k = "null" -> TxtNull
      [] v.k = "bool" -> IF v.b THEN TxtTrue ELSE TxtFalse
      [] v.k = "str"  -> <<34>> \o v.s \o <<34>>
      [] v.k = "num"  -> Digits(v.n)
      [] v.k = "arr"  -> IF v.items = <<>> THEN <<91, 93>>
                         ELSE <<91>> \o NewLine(lvl + 1) \o DumpItems(v.items, 1, lvl + 1)
                              \o NewLine(lvl) \o <<93>>
      [] v.k = "obj"  -> IF v.members = <<>> THEN <<123, 125>>
                         ELSE <<123>> \o NewLine(lvl + 1) \o DumpMembers(v.members, 1, lvl + 1)
                              \o NewLine(lvl) \o <<125>>
DumpItems(items, i, lvl) ==
    IF i = Len(items) THEN Dump(items[i], lvl)
    ELSE Dump(items[i], lvl) \o <<44>> \o NewLine(lvl) \o DumpItems(items, i + 1, lvl)
DumpMembers(members, i, lvl) ==
    LET one == <<34>> \o members[i][1] \o <<34, 58, 32>> \o Dump(members[i][2], lvl)
    IN  IF i = Len(members) THEN one
        ELSE one \o <<44>> \o NewLine(lvl) \o DumpMembers(members, i + 1, lvl)
\* json.dumps(v, indent=2).encode('utf-8'), for ASCII text without escapes
JsonDumps(v) == Dump(v, 0)

ParseFail(p) == [ok |-> FALSE, val |-> JNull, pos |-> p]
ParseOk(v, p) == [ok |-> TRUE, val |-> v, pos |-> p]
RECURSIVE SkipWs(_, _)
SkipWs(t, p) == IF p <= Len(t) /\ t[p] \in Whitespace THEN SkipWs(t, p + 1) ELSE p
StartsWith(t, p, lit) == p + Len(lit) - 1 <= Len(t) /\ SubSeq(t, p, p + Len(lit) - 1) = lit
\* t[p] is the opening quote; escapes and control characters are outside the
\* model's alphabet and are refused
ParseString(t, p) ==
    LET closes == {q \in (p + 1)..Len(t) : t[q] = 34}
        q == CHOOSE c \in closes : \A d \in closes : c <= d
    IN  IF closes = {} THEN ParseFail(p)
        ELSE IF \E i \in (p + 1)..(q - 1) : t[i] = 92 \/ t[i] < 32 THEN ParseFail(p)
        ELSE ParseOk(JStr(SubSeq(t, p + 1, q - 1)), q + 1)
RECURSIVE NumEnd(_, _), NumVal(_, _, _)
NumEnd(t, p) == IF p <= Len(t) /\ t[p] \in DigitChars THEN NumEnd(t, p + 1) ELSE p
NumVal(t, p, q) == IF p >= q THEN 0 ELSE NumVal(t, p, q - 1) * 10 + (t[q - 1] - 48)
\* an unsigned integer without a leading zero (the only numbers of the format)
ParseNumber(t, p) ==
    LET q == NumEnd(t, p)
    IN  IF q = p \/ (t[p] = 48 /\ q > p + 1) THEN ParseFail(p)
        ELSE ParseOk(JNum(NumVal(t, p, q)), q)

RECURSIVE ParseValue(_, _), ParseItems(_, _, _), ParseMembers(_, _, _)
ParseValue(t, p0) ==
    LET p == SkipWs(t, p0)
    IN  IF p > Len(t) THEN ParseFail(p)
        ELSE IF t[p] = 34 THEN ParseString(t, p)
        ELSE IF t[p] \in DigitChars THEN ParseNumber(t, p)
        ELSE IF StartsWith(t, p, TxtNull) THEN ParseOk(JNull, p + 4)
        ELSE IF StartsWith(t, p, TxtTrue) THEN ParseOk(JBool(TRUE), p + 4)
        ELSE IF StartsWith(t, p, TxtFalse) THEN ParseOk(JBool(FALSE), p + 5)
        ELSE IF t[p] = 91 THEN
            LET q == SkipWs(t, p + 1)
            IN  IF q <= Len(t) /\ t[q] = 93 THEN ParseOk(JArr(<<>>), q + 1)
                ELSE ParseItems(t, p + 1, <<>>)
        ELSE IF t[p] = 123 THEN
            LET q == SkipWs(t, p + 1)
            IN  IF q <= Len(t) /\ t[q] = 125 THEN ParseOk(JObj(<<>>), q + 1)
                ELSE ParseMembers(t, p + 1, <<>>)
        ELSE ParseFail(p)
\* the items of an array from p on, up to and including the closing "]"
ParseItems(t, p, acc) ==
    LET r == ParseValue(t, p)
        q == SkipWs(t, r.pos)
    IN  IF ~r.ok \/ q > Len(t) THEN ParseFail(p)
        ELSE IF t[q] = 44 THEN ParseItems(t, q + 1, Append(acc, r.val))
        ELSE IF t[q] = 93 THEN ParseOk(JArr(Append(acc, r.val)), q + 1)
        ELSE ParseFail(q)
\* the members of an object from p on, up to and including the closing "}"
ParseMembers(t, p, acc) ==
    LET kp == SkipWs(t, p)
        key == IF kp <= Len(t) /\ t[kp] = 34 THEN ParseString(t, kp) ELSE ParseFail(kp)
        cp == SkipWs(t, key.pos)
        r == IF key.ok /\ cp <= Len(t) /\ t[cp] = 58 THEN ParseValue(t, cp + 1)
             ELSE ParseFail(cp)
        q == SkipWs(t, r.pos)
    IN  IF ~r.ok \/ q > Len(t) THEN ParseFail(p)
        ELSE IF t[q] = 44 THEN ParseMembers(t, q + 1, DictSet(acc, key.val.s, r.val))
        ELSE IF t[q] = 125 THEN ParseOk(JObj(DictSet(acc, key.val.s, r.val)), q + 1)
        ELSE ParseFail(q)
\* json.loads: one value, then nothing but whitespace
JsonLoads(t) ==
    LET r == ParseValue(t, 1)
    IN  IF r.ok /\ SkipWs(t, r.pos) > Len(t) THEN r ELSE ParseFail(r.pos)

(***************************************************************************)
(* The files the compiler reads: path |-> content.  A content that starts  *)
(* with AudioSignature is one mixer.Sound can decode.                      *)
(***************************************************************************)
PathAX == <<97, 47, 120>>    \* "a/x"
PathBX == <<98, 47, 120>>    \* "b/x": the base name of a/x, another content
PathAY == <<97, 47, 121>>    \* "a/y"
PathAT == <<97, 47, 116>>    \* "a/t": an image
AudioSignature == <<82>>     \* "R"
SourceFiles ==
    [p \in {PathAX, PathBX, PathAY, PathAT} |->
        CASE p = PathAX -> <<82, 1>>
          [] p = PathBX -> <<82, 2>>
          [] p = PathAY -> <<0>>
          [] p = PathAT -> <<7, 7>>]
CanRead(path) == path \in DOMAIN SourceFiles

(***************************************************************************)
(* ModaCompiler.build_moda_file.  The result is the bytes written to       *)
(* output_path, or a failure that leaves output_path untouched.            *)
(***************************************************************************)
\* a track entry numbered from 0
TrackEntry_from_zero(t, i) ==
    JObj(<<<<KeyFile, JStr(basename(t))>>, <<KeyOrder, JNum(i - 1)>>>>)
TrackEntry(t, i) == JObj(<<<<KeyFile, JStr(basename(t))>>, <<KeyOrder, JNum(i)>>>>)
BuildMeta(trks, mode, thumb) ==
    JObj(<< <<KeyPlayMode, JStr(mode)>>,
            <<KeyTracks, JArr([i \in 1..Len(trks) |-> TrackEntry(trks[i], i)])>>,
            <<KeyThumbnail, IF thumb # None THEN JStr(basename(thumb)) ELSE JNull>> >>)
\* a name or a path, its length on 2 bytes first, then a content, its length on 4
Section(path) ==
    PackH(Len(basename(path))) \o basename(path)
        \o PackI(Len(SourceFiles[path])) \o SourceFiles[path]
RECURSIVE TrackSections(_, _)
TrackSections(trks, i) ==
    IF i > Len(trks) THEN <<>> ELSE Section(trks[i]) \o TrackSections(trks, i + 1)
build_moda_file(trks, mode, thumb) ==
    LET meta_json == JsonDumps(BuildMeta(trks, mode, thumb))
        head == MODA_MAGIC \o PackI(Len(meta_json)) \o meta_json
        thumb_part == IF thumb # None THEN Section(thumb) ELSE PackH(0)
    IN  IF (thumb # None /\ ~CanRead(thumb)) \/ \E i \in 1..Len(trks) : ~CanRead(trks[i])
        THEN [ok |-> FALSE, data |-> <<>>]
        ELSE [ok |-> TRUE,
              data |-> head \o thumb_part \o PackH(Len(trks)) \o TrackSections(trks, 1)]

(***************************************************************************)
(* Reading a file object: f.read(n) returns the bytes that are left when   *)
(* fewer than n are.                                                       *)
(***************************************************************************)
Read(buf, pos, n) == SubSeq(buf, pos + 1, Min(pos + n, Len(buf)))
Adv(buf, pos, n) == Min(pos + n, Len(buf))

(***************************************************************************)
(* ModaDecompiler.extract_moda.  error is "" on success, else the          *)
(* exception wrapped into the ValueError; dir is output_dir afterwards.    *)
(***************************************************************************)
Extracted(err, meta, dir, pos) ==
    [error |-> err, meta |-> IF err = "" THEN meta ELSE JNull, dir |-> dir, consumed |-> pos]
\* the track loop, from track number i of n on
RECURSIVE ExtractTracks(_, _, _, _, _)
ExtractTracks(buf, pos, i, n, dir) ==
    LET lenb == Read(buf, pos, 2)
        p1 == Adv(buf, pos, 2)
        track_name == Read(buf, p1, UnpackH(lenb))
        p2 == Adv(buf, p1, UnpackH(lenb))
        sizeb == Read(buf, p2, 4)
        p3 == Adv(buf, p2, 4)
        track_data == Read(buf, p3, UnpackI(sizeb))
        p4 == Adv(buf, p3, UnpackI(sizeb))
    IN  IF i > n THEN [error |-> "", dir |-> dir, pos |-> pos]
        ELSE IF ~UnpackOk(lenb, 2) THEN [error |-> "truncated", dir |-> dir, pos |-> p1]
        ELSE IF ~UnpackOk(sizeb, 4) THEN [error |-> "truncated", dir |-> dir, pos |-> p3]
        ELSE IF track_name = <<>> THEN [error |-> "io", dir |-> dir, pos |-> p4]
        ELSE ExtractTracks(buf, p4, i + 1, n, WriteFile(dir, track_name, track_data))
\* from the track count on
\* after the track loop (r is what it did): meta.json is written last
ExtractMetaFile(meta, r) ==
    IF r.error # "" THEN Extracted(r.error, meta, r.dir, r.pos)
    ELSE Extracted("", meta, WriteFile(r.dir, MetaJsonName, JsonDumps(meta)), r.pos)
ExtractBody(buf, pos, meta, dir) ==
    LET countb == Read(buf, pos, 2)
        p1 == Adv(buf, pos, 2)
    IN  IF ~UnpackOk(countb, 2) THEN Extracted("truncated", meta, dir, p1)
        ELSE ExtractMetaFile(meta, ExtractTracks(buf, p1, 1, UnpackH(countb), dir))
\* from the thumbnail section on
ExtractThumb(buf, pos, meta, dir) ==
    LET lenb == Read(buf, pos, 2)
        p1 == Adv(buf, pos, 2)
        thumb_name == Read(buf, p1, UnpackH(lenb))
        p2 == Adv(buf, p1, UnpackH(lenb))
        sizeb == Read(buf, p2, 4)
        p3 == Adv(buf, p2, 4)
        thumb_data == Read(buf, p3, UnpackI(sizeb))
        p4 == Adv(buf, p3, UnpackI(sizeb))
    IN  IF ~UnpackOk(lenb, 2) THEN Extracted("truncated", meta, dir, p1)
        ELSE IF UnpackH(lenb) = 0 THEN ExtractBody(buf, p1, meta, dir)
        ELSE IF ~UnpackOk(sizeb, 4) THEN Extracted("truncated", meta, dir, p3)
        ELSE IF thumb_name = <<>> THEN Extracted("io", meta, dir, p4)
        ELSE ExtractBody(buf, p4, meta, WriteFile(dir, thumb_name, thumb_data))
\* after json.loads (parsed is what it did)
ExtractParsed(buf, pos, parsed, dir) ==
    IF ~parsed.ok THEN Extracted("json", JNull, dir, pos)
    ELSE ExtractThumb(buf, pos, parsed.val, dir)
extract_moda(buf, dir) ==
    LET magic == Read(buf, 0, 4)
        lenb == Read(buf, 4, 4)
        p2 == Adv(buf, 4, 4)
        p3 == Adv(buf, p2, UnpackI(lenb))
    IN  IF magic # MODA_MAGIC THEN Extracted("bad_magic", JNull, dir, Adv(buf, 0, 4))
        ELSE IF ~UnpackOk(lenb, 4) THEN Extracted("truncated", JNull, dir, p2)
        ELSE ExtractParsed(buf, p3, JsonLoads(Read(buf, p2, UnpackI(lenb))), dir)

(***************************************************************************)
(* ModaPlayer.load_moda.  pl holds the player's fields play_mode,          *)
(* tracks_meta, thumbnail_path, temp_dir and the system's temporary        *)
(* directory sys_tmp; the result holds them after the call, with the       *)
(* error ("" on success), the metadata returned and the bytes consumed.    *)
(***************************************************************************)
NoTempDir == [made |-> FALSE, files |-> EmptyDir]
Loaded(pl, err, meta, pos) ==
    [play_mode |-> pl.play_mode, tracks_meta |-> pl.tracks_meta,
     thumbnail_path |-> pl.thumbnail_path, temp_dir |-> pl.temp_dir,
     sys_tmp |-> pl.sys_tmp, error |-> err, meta |-> IF err = "" THEN meta ELSE JNull,
     consumed |-> pos]
\* from the track count on; the tracks go to the new temp_dir
\* after the track loop (r is what it did)
LoadTracks(meta, pl, r) ==
    Loaded([pl EXCEPT !.temp_dir = [made |-> TRUE, files |-> r.dir]], r.error, meta, r.pos)
LoadBody(buf, pos, meta, pl) ==
    LET countb == Read(buf, pos, 2)
        p1 == Adv(buf, pos, 2)
        made == [pl EXCEPT !.temp_dir = [made |-> TRUE, files |-> EmptyDir]]
    IN  IF ~UnpackOk(countb, 2) THEN Loaded(made, "truncated", meta, p1)
        ELSE LoadTracks(meta, pl, ExtractTracks(buf, p1, 1, UnpackH(countb), EmptyDir))
\* from the thumbnail section on; the thumbnail goes to the system's temporary directory
LoadThumb(buf, pos, meta, pl) ==
    LET lenb == Read(buf, pos, 2)
        p1 == Adv(buf, pos, 2)
        thumb_name == Read(buf, p1, UnpackH(lenb))
        p2 == Adv(buf, p1, UnpackH(lenb))
        sizeb == Read(buf, p2, 4)
        p3 == Adv(buf, p2, 4)
        thumb_data == Read(buf, p3, UnpackI(sizeb))
        p4 == Adv(buf, p3, UnpackI(sizeb))
    IN  IF ~UnpackOk(lenb, 2) THEN Loaded(pl, "truncated", meta, p1)
        ELSE IF UnpackH(lenb) = 0 THEN LoadBody(buf, p1, meta, pl)
        ELSE IF ~UnpackOk(sizeb, 4) THEN Loaded(pl, "truncated", meta, p3)
        ELSE IF thumb_name = <<>> THEN
            Loaded([pl EXCEPT !.thumbnail_path = thumb_name], "io", meta, p4)
        ELSE LoadBody(buf, p4, meta,
                      [pl EXCEPT !.thumbnail_path = thumb_name,
                                 !.sys_tmp = WriteFile(pl.sys_tmp, thumb_name, thumb_data)])
\* after json.loads (parsed is what it did): meta.get raises on anything but a dict
LoadParsed(buf, pos, parsed, pl) ==
    IF ~parsed.ok THEN Loaded(pl, "json", JNull, pos)
    ELSE IF parsed.val.k # "obj" THEN Loaded(pl, "type", JNull, pos)
    ELSE LoadThumb(buf, pos, parsed.val,
                   [pl EXCEPT !.play_mode = Get(parsed.val, KeyPlayMode, JStr(Sequential)),
                              !.tracks_meta = Get(parsed.val, KeyTracks, JArr(<<>>))])
\* load_moda without the comparison of the magic
load_moda_unchecked(buf, pl) ==
    LET lenb == Read(buf, 4, 4)
        p2 == Adv(buf, 4, 4)
        p3 == Adv(buf, p2, UnpackI(lenb))
    IN  IF ~UnpackOk(lenb, 4) THEN Loaded(pl, "truncated", JNull, p2)
        ELSE LoadParsed(buf, p3, JsonLoads(Read(buf, p2, UnpackI(lenb))), pl)
load_moda(buf, pl) ==
    LET magic == Read(buf, 0, 4)
        lenb == Read(buf, 4, 4)
        p2 == Adv(buf, 4, 4)
        p3 == Adv(buf, p2, UnpackI(lenb))
    IN  IF magic # MODA_MAGIC THEN Loaded(pl, "bad_magic", JNull, Adv(buf, 0, 4))
        ELSE IF ~UnpackOk(lenb, 4) THEN Loaded(pl, "truncated", JNull, p2)
        ELSE LoadParsed(buf, p3, JsonLoads(Read(buf, p2, UnpackI(lenb))), pl)

(***************************************************************************)
(* The state after construction (ModaCompilerApp.__init__,                 *)
(* ModaDecompilerApp.__init__, ModaPlayer.__init__).                       *)
(***************************************************************************)
NumChannels == 8     \* pygame's mixer has 8 channels unless set_num_channels is called
NoResult == [done |-> FALSE, error |-> "", meta |-> JNull, consumed |-> 0]
Result(r) == [done |-> TRUE, error |-> r.error, meta |-> r.meta, consumed |-> r.consumed]
NewPlayer ==
    [play_mode |-> JStr(<<>>), tracks_meta |-> JArr(<<>>), thumbnail_path |-> None,
     temp_dir |-> NoTempDir, sys_tmp |-> EmptyDir]
Fields(r) ==
    [play_mode |-> r.play_mode, tracks_meta |-> r.tracks_meta,
     thumbnail_path |-> r.thumbnail_path, temp_dir |-> r.temp_dir, sys_tmp |-> r.sys_tmp]
Player ==
    [play_mode |-> play_mode, tracks_meta |-> tracks_meta,
     thumbnail_path |-> thumbnail_path, temp_dir |-> temp_dir, sys_tmp |-> sys_tmp]

InitCompiler ==
    /\ tracks = <<>>
    /\ mode_arg = Sequential
    /\ thumbnail = None
    /\ output_file = None
InitDecompiler ==
    /\ moda_file = None
    /\ output_dir = EmptyDir
    /\ extract_result = NoResult
InitLoader(pl) ==
    /\ play_mode = pl.play_mode
    /\ tracks_meta = pl.tracks_meta
    /\ thumbnail_path = pl.thumbnail_path
    /\ temp_dir = pl.temp_dir
    /\ sys_tmp = pl.sys_tmp
    /\ load_result = NoResult
InitEngine ==
    /\ current_track = 0
    /\ is_playing = FALSE
    /\ sound_objects = <<>>
    /\ channels = [c \in 1..NumChannels |-> [busy |-> FALSE, endevent |-> FALSE]]
    /\ events = 0
    /\ audio_threads = <<>>

(***************************************************************************)
(* The codec specification: one container is built from inputs drawn from  *)
(* bounded sets, a copy of it (whole, cut short, or with a changed magic)  *)
(* is opened, and the two decoders run on it.                              *)
(***************************************************************************)
AudioPaths == {PathAX, PathBX, PathAY}
TrackLists == UNION {[1..n -> AudioPaths] : n \in 1..MaxTracks}
PlayModes == {Sequential, Parallel}
Thumbnails == {None, PathAT}
\* a player that has loaded nothing, or one that loaded a container before
EarlierContainer == build_moda_file(<<PathAY>>, Parallel, PathAT).data
PlayersBefore == {NewPlayer, Fields(load_moda(EarlierContainer, NewPlayer))}

\* ModaCompilerApp.save_moda: build_moda_file on the chosen inputs
BuildModaFile ==
    /\ output_file = None
    /\ \E trks \in TrackLists, mode \in PlayModes, thumb \in Thumbnails :
        \E r \in {build_moda_file(trks, mode, thumb)} :
            /\ tracks' = trks
            /\ mode_arg' = mode
            /\ thumbnail' = thumb
            /\ output_file' = IF r.ok THEN r.data ELSE output_file
    /\ last' = "build"
    /\ UNCHANGED <<moda_file, output_dir, extract_result, loader_vars, engine_vars>>

\* the files that are opened: every prefix of the container built (the whole
\* container is one), the container with one byte of the magic changed, and
\* files from elsewhere
Prefixes(b) == {SubSeq(b, 1, n) : n \in 0..Len(b)}
WrongMagic(b) == {[b EXCEPT ![i] = 0] : i \in 1..Len(MODA_MAGIC)}
\* containers that build_moda_file did not write: no thumbnail, no track, and
\* as metadata the JSON texts {} (no key) and [] (not a dict)
KeylessContainer == MODA_MAGIC \o PackI(2) \o <<123, 125>> \o PackH(0) \o PackH(0)
ListContainer == MODA_MAGIC \o PackI(2) \o <<91, 93>> \o PackH(0) \o PackH(0)
ForeignFiles == {KeylessContainer, ListContainer}
\* open_file: the file chosen for decoding
OpenFile ==
    /\ output_file # None
    /\ moda_file = None
    /\ moda_file' \in Prefixes(output_file) \cup WrongMagic(output_file) \cup ForeignFiles
    /\ moda_file' # None
    /\ last' = "open"
    /\ UNCHANGED <<tracks, mode_arg, thumbnail, output_file, output_dir, extract_result,
                   loader_vars, engine_vars>>

\* ModaDecompilerApp.extract_files: extract_moda into output_dir
ExtractModa ==
    /\ moda_file # None
    /\ \E r \in {extract_moda(moda_file, output_dir)} :
           /\ output_dir' = r.dir
           /\ extract_result' = Result(r)
    /\ last' = "extract"
    /\ UNCHANGED <<tracks, mode_arg, thumbnail, output_file, moda_file, loader_vars, engine_vars>>

\* load_moda on the opened file
LoadModaFile ==
    /\ moda_file # None
    /\ \E r \in {load_moda(moda_file, Player)} :
           /\ play_mode' = r.play_mode
           /\ tracks_meta' = r.tracks_meta
           /\ thumbnail_path' = r.thumbnail_path
           /\ temp_dir' = r.temp_dir
           /\ sys_tmp' = r.sys_tmp
           /\ load_result' = Result(r)
    /\ last' = "load"
    /\ UNCHANGED <<codec_vars, engine_vars>>

CodecInit ==
    /\ InitCompiler
    /\ InitDecompiler
    /\ \E pl \in PlayersBefore : InitLoader(pl)
    /\ InitEngine
    /\ last = "init"
CodecNext == BuildModaFile \/ OpenFile \/ ExtractModa \/ LoadModaFile
CodecSpec == CodecInit /\ [][CodecNext]_vars

(***************************************************************************)
(* Claims about the codec, checked under CodecSpec.                        *)
(***************************************************************************)
Opened == moda_file # None
Intact == Opened /\ moda_file = output_file
Truncated ==
    /\ Opened
    /\ Len(moda_file) < Len(output_file)
    /\ moda_file = SubSeq(output_file, 1, Len(moda_file))
BadMagic == Opened /\ Read(moda_file, 0, 4) # MODA_MAGIC

\* the decoded metadata and files are those build_moda_file was given
MetaMatches(meta) ==
    /\ meta.k = "obj"
    /\ Get(meta, KeyPlayMode, JNull) = JStr(mode_arg)
    /\ Get(meta, KeyTracks, JNull).k = "arr"
    /\ Len(Get(meta, KeyTracks, JNull).items) = Len(tracks)
    /\ \A i \in 1..Len(tracks) :
        Get(Get(meta, KeyTracks, JNull).items[i], KeyFile, JNull) = JStr(basename(tracks[i]))
    /\ Get(meta, KeyThumbnail, JStr(<<>>))
          = IF thumbnail # None THEN JStr(basename(thumbnail)) ELSE JNull
HoldsFile(dir, path) ==
    basename(path) \in DOMAIN dir /\ dir[basename(path)] = SourceFiles[path]
TracksMatch(dir) == \A i \in 1..Len(tracks) : HoldsFile(dir, tracks[i])

\* C1: decoding an intact container built by build_moda_file, with
\* extract_moda or load_moda, succeeds and yields the play mode, the track
\* names in input order, for each track a file of its name with the
\* content of the input file, and the thumbnail's name and content.
C1_RoundTrip ==
    Intact =>
        /\ extract_result.done =>
            /\ extract_result.error = ""
            /\ MetaMatches(extract_result.meta)
            /\ TracksMatch(output_dir)
            /\ thumbnail # None => HoldsFile(output_dir, thumbnail)
        /\ load_result.done =>
            /\ load_result.error = ""
            /\ MetaMatches(load_result.meta)
            /\ play_mode = JStr(mode_arg)
            /\ TracksMatch(temp_dir.files)
            /\ thumbnail # None =>
                thumbnail_path = basename(thumbnail) /\ HoldsFile(sys_tmp, thumbnail)

\* C2: decoding a proper prefix of a container built by build_moda_file
\* fails: neither extract_moda nor load_moda returns.
C2_BoundsSafety ==
    Truncated =>
        /\ extract_result.done => extract_result.error # ""
        /\ load_result.done => load_result.error # ""

\* C3: on a file whose first 4 bytes are not the magic, extract_moda and
\* load_moda fail with the bad-magic error having read no more than those
\* bytes, and leave the output directory and the player's fields as they were.
C3_MagicCheck ==
    [][BadMagic =>
        /\ last' = "extract" =>
            /\ extract_result'.error = "bad_magic"
            /\ extract_result'.consumed <= Len(MODA_MAGIC)
            /\ output_dir' = output_dir
        /\ last' = "load" =>
            /\ load_result'.error = "bad_magic"
            /\ load_result'.consumed <= Len(MODA_MAGIC)
            /\ UNCHANGED <<play_mode, tracks_meta, thumbnail_path, temp_dir, sys_tmp>>]_vars
\* a whole container with a changed magic was handed to both decoders, the
\* player having loaded another container before
C3_Witness ==
    /\ BadMagic
    /\ Len(moda_file) = Len(output_file)
    /\ extract_result.done /\ extract_result.error = "bad_magic"
    /\ load_result.done /\ load_result.error = "bad_magic"
    /\ play_mode = JStr(Parallel) /\ thumbnail_path # None

(***************************************************************************)
(* The playback engine.  eng holds the player's playback fields with the   *)
(* mixer's channels, the pending end events and the running threads; the   *)
(* operators below give the fields after the method.  A channel is         *)
(* [busy, endevent]: whether a sound plays on it and whether               *)
(* set_endevent(USEREVENT) was called on it.  When a sound ends or is      *)
(* stopped on a channel with an end event, pygame posts the event.         *)
(***************************************************************************)
Engine ==
    [current_track |-> current_track, is_playing |-> is_playing,
     sound_objects |-> sound_objects, channels |-> channels, events |-> events,
     audio_threads |-> audio_threads]

\* len(self.tracks_meta)
TrackCount == IF tracks_meta.k = "arr" THEN Len(tracks_meta.items) ELSE 0
IsAudio(data) == Len(data) >= Len(AudioSignature)
                 /\ SubSeq(data, 1, Len(AudioSignature)) = AudioSignature
\* mixer.Sound(os.path.join(self.temp_dir, track["file"])) of track number i
\* (from 1) returns a sound: the file is in temp_dir and holds audio
SoundLoads(i) ==
    LET file == Get(tracks_meta.items[i], KeyFile, JNull)
    IN  /\ file.k = "str"
        /\ temp_dir.made
        /\ file.s \in DOMAIN temp_dir.files
        /\ IsAudio(temp_dir.files[file.s])

Busy(chs) == {c \in 1..NumChannels : chs[c].busy}
\* mixer.find_channel(): the first idle channel, 0 for None
find_channel(chs) ==
    IF Busy(chs) = 1..NumChannels THEN 0
    ELSE CHOOSE c \in 1..NumChannels :
            ~chs[c].busy /\ \A d \in 1..(c - 1) : chs[d].busy
\* the end events posted when the sounds of the channels in cs end or are stopped
EndEvents(chs, cs) == Cardinality({c \in cs : chs[c].busy /\ chs[c].endevent})

\* a stop() that keeps the cursor
stop_keeps_cursor(eng) ==
    [eng EXCEPT !.channels = [c \in 1..NumChannels |-> [eng.channels[c] EXCEPT !.busy = FALSE]],
                !.events = eng.events + EndEvents(eng.channels, 1..NumChannels),
                !.is_playing = FALSE,
                !.sound_objects = <<>>]
\* ModaPlayer.stop
stop(eng) ==
    [eng EXCEPT !.channels = [c \in 1..NumChannels |-> [eng.channels[c] EXCEPT !.busy = FALSE]],
                !.events = eng.events + EndEvents(eng.channels, 1..NumChannels),
                !.is_playing = FALSE,
                !.current_track = 0,
                !.sound_objects = <<>>]

\* the sound of track number i loaded: play it on a free channel, if there is one
StartSound(eng, i, ch) ==
    IF ch = 0 THEN [eng EXCEPT !.sound_objects = <<i>>]
    ELSE [eng EXCEPT !.sound_objects = <<i>>,
                     !.channels[ch] = [busy |-> TRUE, endevent |-> TRUE],
                     !.is_playing = TRUE]
\* a play_sequential that, after a track that fails, passes over the next one
RECURSIVE play_sequential_skips_two(_)
play_sequential_skips_two(eng) ==
    IF eng.current_track < TrackCount
    THEN IF SoundLoads(eng.current_track + 1)
         THEN StartSound(eng, eng.current_track + 1, find_channel(eng.channels))
         ELSE play_sequential_skips_two([eng EXCEPT !.current_track = eng.current_track + 2])
    ELSE eng
\* ModaPlayer.play_sequential
RECURSIVE play_sequential(_)
play_sequential(eng) ==
    IF eng.current_track < TrackCount
    THEN IF SoundLoads(eng.current_track + 1)
         THEN StartSound(eng, eng.current_track + 1, find_channel(eng.channels))
         ELSE play_sequential([eng EXCEPT !.current_track = eng.current_track + 1])
    ELSE eng
\* the mixer.Sound calls of play_sequential, one for each track it comes to
RECURSIVE LoadAttempts(_)
LoadAttempts(eng) ==
    IF eng.current_track < TrackCount
    THEN IF SoundLoads(eng.current_track + 1)
         THEN 1
         ELSE 1 + LoadAttempts([eng EXCEPT !.current_track = eng.current_track + 1])
    ELSE 0

\* the sounds play_parallel loads, in track order
RECURSIVE LoadedSounds(_)
LoadedSounds(i) ==
    IF i > TrackCount THEN <<>>
    ELSE (IF SoundLoads(i) THEN <<i>> ELSE <<>>) \o LoadedSounds(i + 1)
NewThread == [pc |-> "find_channel", channel |-> 0]
\* play_parallel after its stop(): a thread per loaded sound, all started
StartThreads(eng, sounds) ==
    [eng EXCEPT !.sound_objects = sounds,
                !.audio_threads = eng.audio_threads
                                    \o [k \in 1..Len(sounds) |-> NewThread],
                !.is_playing = TRUE]
\* ModaPlayer.play_parallel
play_parallel(eng) == StartThreads(stop(eng), LoadedSounds(1))

\* ModaPlayer.play
play(eng) ==
    IF TrackCount = 0 THEN eng
    ELSE IF play_mode = JStr(Parallel) THEN play_parallel(eng)
    ELSE play_sequential(eng)

\* one pygame.USEREVENT in check_events
EndOfTrack(eng) ==
    IF eng.current_track + 1 < TrackCount
    THEN play_sequential([eng EXCEPT !.current_track = eng.current_track + 1])
    ELSE [eng EXCEPT !.is_playing = FALSE, !.current_track = 0]
\* ModaPlayer.check_events: the loop over the n events pygame.event.get() returned
RECURSIVE HandleEvents(_, _)
HandleEvents(eng, n) == IF n = 0 THEN eng ELSE HandleEvents(EndOfTrack(eng), n - 1)
check_events(eng) == HandleEvents([eng EXCEPT !.events = 0], eng.events)

\* ModaPlayer._play_sound, thread t: channel = mixer.find_channel()
FindChannel(eng, t) ==
    LET ch == find_channel(eng.channels)
    IN  IF ch = 0
        THEN [eng EXCEPT !.audio_threads =
                SubSeq(eng.audio_threads, 1, t - 1)
                    \o SubSeq(eng.audio_threads, t + 1, Len(eng.audio_threads))]
        ELSE [eng EXCEPT !.audio_threads[t] = [@ EXCEPT !.pc = "play", !.channel = ch]]
\* ModaPlayer._play_sound, thread t: channel.play(sound); a sound still
\* playing on the channel is cut off.  The thread then only waits.
ChannelPlay(eng, t) ==
    LET th == eng.audio_threads[t]
    IN  [eng EXCEPT !.channels[th.channel] = [@ EXCEPT !.busy = TRUE],
                    !.events = eng.events + EndEvents(eng.channels, {th.channel}),
                    !.audio_threads =
                        SubSeq(eng.audio_threads, 1, t - 1)
                            \o SubSeq(eng.audio_threads, t + 1, Len(eng.audio_threads))]
\* a sound comes to its end on channel c
SoundEnd(eng, c) ==
    [eng EXCEPT !.channels[c] = [@ EXCEPT !.busy = FALSE],
                !.events = eng.events + EndEvents(eng.channels, {c})]

(***************************************************************************)
(* The playback specification: the player's methods called in any order    *)
(* on containers built by build_moda_file, the threads of play_parallel    *)
(* and the mixer's sounds running beside them.                             *)
(***************************************************************************)
PlayLists == UNION {[1..n -> {PathAX, PathAY}] : n \in 1..MaxPlayTracks}
Library == {build_moda_file(trks, mode, None).data : trks \in PlayLists, mode \in PlayModes}
RemoveFile(dir, name) == [n \in (DOMAIN dir) \ {name} |-> dir[n]]
\* ModaPlayer.cleanup after its stop(): the files of temp_dir and the
\* directory are removed (the field keeps its path), and the thumbnail file
cleanup(pl) ==
    [pl EXCEPT !.temp_dir = [made |-> pl.temp_dir.made, files |-> EmptyDir],
               !.sys_tmp = IF pl.thumbnail_path = None THEN pl.sys_tmp
                           ELSE RemoveFile(pl.sys_tmp, pl.thumbnail_path)]
\* load_moda on the containers and players of the playback specification,
\* evaluated once and looked up afterwards
KnownPlayers == {NewPlayer} \cup {cleanup(Fields(load_moda(f, NewPlayer))) : f \in Library}
LoadTable == [k \in Library \X KnownPlayers |-> load_moda(k[1], k[2])] @@ <<>>
Load(f, pl) == IF <<f, pl>> \in DOMAIN LoadTable THEN LoadTable[<<f, pl>>] ELSE load_moda(f, pl)

\* the step to the engine's fields eng, within the bounds of the model
Becomes(eng) ==
    /\ eng.events <= MaxEvents
    /\ Len(eng.audio_threads) <= MaxThreads
    /\ Cardinality(Busy(eng.channels)) <= MaxBusy
    /\ current_track' = eng.current_track
    /\ is_playing' = eng.is_playing
    /\ sound_objects' = eng.sound_objects
    /\ channels' = eng.channels
    /\ events' = eng.events
    /\ audio_threads' = eng.audio_threads

\* ModaPlayerApp.open_file: cleanup(), then load_moda on the chosen container
PlayerOpenFile ==
    /\ \E f \in Library : \E r \in {Load(f, cleanup(Player))} :
           /\ play_mode' = r.play_mode
           /\ tracks_meta' = r.tracks_meta
           /\ thumbnail_path' = r.thumbnail_path
           /\ temp_dir' = r.temp_dir
           /\ sys_tmp' = r.sys_tmp
           /\ load_result' = Result(r)
    /\ \E eng \in {stop(Engine)} : Becomes(eng)
    /\ last' = "load"
    /\ UNCHANGED codec_vars
Play ==
    /\ \E eng \in {play(Engine)} : Becomes(eng)
    /\ last' = "play"
    /\ UNCHANGED <<codec_vars, loader_vars>>
Stop ==
    /\ \E eng \in {stop(Engine)} : Becomes(eng)
    /\ last' = "stop"
    /\ UNCHANGED <<codec_vars, loader_vars>>
\* ModaPlayerApp.update_player: the timer calls check_events while is_playing
Poll ==
    /\ is_playing
    /\ \E eng \in {check_events(Engine)} : Becomes(eng)
    /\ last' = "poll"
    /\ UNCHANGED <<codec_vars, loader_vars>>
ThreadFindChannel ==
    /\ \E t \in 1..Len(audio_threads) :
        /\ audio_threads[t].pc = "find_channel"
        /\ \E eng \in {FindChannel(Engine, t)} : Becomes(eng)
    /\ last' = "find_channel"
    /\ UNCHANGED <<codec_vars, loader_vars>>
ThreadChannelPlay ==
    /\ \E t \in 1..Len(audio_threads) :
        /\ audio_threads[t].pc = "play"
        /\ \E eng \in {ChannelPlay(Engine, t)} : Becomes(eng)
    /\ last' = "channel_play"
    /\ UNCHANGED <<codec_vars, loader_vars>>
SoundEnds ==
    /\ \E c \in Busy(channels) : \E eng \in {SoundEnd(Engine, c)} : Becomes(eng)
    /\ last' = "end"
    /\ UNCHANGED <<codec_vars, loader_vars>>

Init ==
    /\ InitCompiler
    /\ InitDecompiler
    /\ InitLoader(NewPlayer)
    /\ InitEngine
    /\ last = "init"
Next ==
    \/ PlayerOpenFile
    \/ Play
    \/ Stop
    \/ Poll
    \/ ThreadFindChannel
    \/ ThreadChannelPlay
    \/ SoundEnds
Spec == Init /\ [][Next]_vars

(***************************************************************************)
(* Claims about the playback engine.                                       *)
(***************************************************************************)
SequentialMode == play_mode # JStr(Parallel)
ParallelSession == play_mode = JStr(Parallel) /\ is_playing
\* the playing track of a sequential session has finished: its end event is
\* pending, no sound plays and no thread is about to start one
TrackFinished(n) ==
    /\ SequentialMode
    /\ is_playing
    /\ events = n
    /\ Busy(channels) = {}
    /\ audio_threads = <<>>
\* the first track from number i on whose sound loads, 0 if there is none
RECURSIVE FirstLoadable(_)
FirstLoadable(i) ==
    IF i > TrackCount THEN 0
    ELSE IF SoundLoads(i) THEN i
    ELSE FirstLoadable(i + 1)

\* C4: in a sequential session, a poll after the playing track has finished
\* moves on to the next later track that loads, skipping the tracks that
\* fail, and plays it alone; when there is no such track the session ends
\* with is_playing false.
C4_SequentialAdvance ==
    [][(TrackFinished(1) /\ last' = "poll") =>
        IF FirstLoadable(current_track + 2) # 0
        THEN /\ current_track' = FirstLoadable(current_track + 2) - 1
             /\ sound_objects' = <<FirstLoadable(current_track + 2)>>
             /\ is_playing'
             /\ Cardinality(Busy(channels')) = 1
        ELSE ~is_playing']_vars

\* C5: every start request of a parallel session that reaches channel.play
\* adds one playing channel: no two sounds are given the same channel and no
\* started sound is cut off.
C5_ParallelFanOut ==
    [][(ParallelSession /\ last' = "channel_play") =>
        Cardinality(Busy(channels')) = Cardinality(Busy(channels)) + 1]_vars

\* C6: every play() ends in the state that stop() followed by play() gives:
\* the channels are stopped, the sound handles cleared and current_track
\* reset before any track starts.
C6_ImplicitStop ==
    [][last' = "play" => Engine' = play(stop(Engine))]_vars

\* C7: every stop() leaves the engine idle (is_playing false, current_track 0,
\* no sound handle), and a second stop() right after it changes nothing, in
\* the fields, the channels or the event queue.
C7_IdempotentStop ==
    [][last' = "stop" =>
        /\ ~is_playing'
        /\ current_track' = 0
        /\ sound_objects' = <<>>
        /\ stop(Engine') = Engine']_vars
\* stop() has returned with an end event of a stopped sequential track
\* pending and a start request of a parallel session still on its way
C7_Witness ==
    /\ last = "stop"
    /\ events > 0
    /\ audio_threads # <<>>

\* C8: in a parallel session a poll changes neither current_track nor
\* is_playing and starts no track, whatever end events are pending.
C8_NoAutoAdvance ==
    [][(ParallelSession /\ last' = "poll") =>
        /\ current_track' = current_track
        /\ is_playing'
        /\ sound_objects' = sound_objects
        /\ channels' = channels]_vars

\* C9: while the engine stays stopped (is_playing false before and after the
\* step) no channel starts playing.
C9_Cancellation ==
    [][(~is_playing /\ ~is_playing') => Busy(channels') \subseteq Busy(channels)]_vars

\* C10: in a sequential session, a poll after the playing track has finished
\* with no later track that loads leaves is_playing false.
C10_SessionEnd ==
    [][(\E n \in 1..MaxEvents : TrackFinished(n))
            /\ FirstLoadable(current_track + 2) = 0
            /\ last' = "poll"
        => ~is_playing']_vars

\* C11: a play() on a container none of whose tracks loads, in either mode,
\* leaves the engine idle: is_playing false, current_track 0, no sound handle.
C11_Unplayable ==
    [][(last' = "play" /\ TrackCount > 0 /\ FirstLoadable(1) = 0) =>
        /\ ~is_playing'
        /\ current_track' = 0
        /\ sound_objects' = <<>>]_vars

\* C12: a decode that fails leaves nothing behind: a failing extract_moda
\* leaves the output directory as it was, and a failing load_moda leaves
\* play_mode, tracks_meta, thumbnail_path, temp_dir and the system's
\* temporary directory as they were.
C12_NoPartialResult ==
    [][/\ (last' = "extract" /\ extract_result'.error # "") => output_dir' = output_dir
       /\ (last' = "load" /\ load_result'.error # "") =>
            UNCHANGED <<play_mode, tracks_meta, thumbnail_path, temp_dir, sys_tmp>>]_vars

\* the position in the container just after the metadata JSON
AfterJson(buf) == 2 * Len(MODA_MAGIC) + UnpackI(Read(buf, Len(MODA_MAGIC), 4))
\* C13: a container built without a thumbnail holds, between the metadata
\* JSON and the track count, the 2 bytes of the value 0 and nothing else;
\* decoding it yields no thumbnail: extract_moda writes only the track files
\* and meta.json, and after load_moda thumbnail_path is None, whatever the
\* player loaded before.
C13_EmptyThumbnail ==
    (output_file # None /\ thumbnail = None) =>
        /\ Read(output_file, AfterJson(output_file), 2) = PackH(0)
        /\ Read(output_file, AfterJson(output_file) + 2, 2) = PackH(Len(tracks))
        /\ (Intact /\ extract_result.done) =>
            /\ extract_result.error = ""
            /\ DOMAIN output_dir
                 \subseteq {basename(tracks[i]) : i \in 1..Len(tracks)} \cup {MetaJsonName}
        /\ (Intact /\ load_result.done) =>
            /\ load_result.error = ""
            /\ thumbnail_path = None

\* the track entries of meta carry the orders 1, 2, ... in list order, one
\* entry for each track given to build_moda_file
OrdersFollow(meta) ==
    /\ meta.k = "obj"
    /\ Get(meta, KeyTracks, JNull).k = "arr"
    /\ Len(Get(meta, KeyTracks, JNull).items) = Len(tracks)
    /\ \A i \in 1..Len(tracks) :
        Get(Get(meta, KeyTracks, JNull).items[i], KeyOrder, JNull) = JNum(i)
\* the metadata JSON held in the container
EncodedMeta(buf) ==
    JsonLoads(Read(buf, 2 * Len(MODA_MAGIC), UnpackI(Read(buf, Len(MODA_MAGIC), 4))))

\* C14: for every track list given to build_moda_file, the entry at position
\* i of the metadata (from 1) has order i, in the JSON written to the
\* container and in the metadata extract_moda and load_moda return for it.
C14_OrderPreserved ==
    /\ (last = "build" /\ output_file # None) =>
        /\ EncodedMeta(output_file).ok
        /\ OrdersFollow(EncodedMeta(output_file).val)
    /\ (Intact /\ extract_result.done) =>
        /\ extract_result.error = ""
        /\ OrdersFollow(extract_result.meta)
    /\ (Intact /\ load_result.done) =>
        /\ load_result.error = ""
        /\ OrdersFollow(load_result.meta)
\* a container of two tracks has been built and decoded both ways
C14_Witness ==
    /\ Intact
    /\ Len(tracks) = MaxTracks
    /\ extract_result.done /\ extract_result.error = ""
    /\ load_result.done /\ load_result.error = ""
    /\ OrdersFollow(load_result.meta)

\* meta is a dict with the keys play_mode (a string), tracks (a list) and
\* thumbnail (a string or null)
RequiredKeys(meta) ==
    /\ meta.k = "obj"
    /\ HasKey(meta, KeyPlayMode) /\ Get(meta, KeyPlayMode, JNull).k = "str"
    /\ HasKey(meta, KeyTracks) /\ Get(meta, KeyTracks, JNull).k = "arr"
    /\ HasKey(meta, KeyThumbnail) /\ Get(meta, KeyThumbnail, JNull).k \in {"str", "null"}

\* C15: extract_moda and load_moda never succeed on metadata that is not a
\* dict with well-typed play_mode, tracks and thumbnail keys: a decode that
\* returns has parsed such a dict (nothing is put in place of a missing key).
C15_MalformedMetadata ==
    /\ (extract_result.done /\ extract_result.error = "") => RequiredKeys(extract_result.meta)
    /\ (load_result.done /\ load_result.error = "") => RequiredKeys(load_result.meta)

\* the track entries of decoded metadata (none when it has no track list)
TrackEntries(meta) ==
    IF meta.k = "obj" /\ Get(meta, KeyTracks, JNull).k = "arr"
    THEN Get(meta, KeyTracks, JNull).items
    ELSE <<>>
\* the track files of a directory a decode wrote to
TrackFiles(dir) ==
    (DOMAIN dir) \ ({MetaJsonName}
                     \cup (IF thumbnail # None THEN {basename(thumbnail)} ELSE {}))
\* dir holds one track file for each track entry of meta and, for a
\* container taken whole, under each entry's name the content of its track
PayloadsMatch(meta, dir) ==
    /\ Cardinality(TrackFiles(dir)) = Len(TrackEntries(meta))
    /\ Intact => TracksMatch(dir)

\* C16: after every decode that succeeds, the track payloads held (the track
\* files written) are as many as the track entries of the decoded metadata,
\* and each entry's name resolves to the payload of its own track.
C16_DecodedContainer ==
    /\ (extract_result.done /\ extract_result.error = "") =>
            PayloadsMatch(extract_result.meta, output_dir)
    /\ (load_result.done /\ load_result.error = "") =>
            PayloadsMatch(load_result.meta, temp_dir.files)

(***************************************************************************)
(* The channel specification: sequential containers played with any number *)
(* of the mixer's channels in use, so that find_channel() can return None. *)
(* No parallel session, hence no thread.                                   *)
(***************************************************************************)
SequentialLibrary == {build_moda_file(trks, Sequential, None).data : trks \in PlayLists}
\* the step to the engine's fields eng, with any number of channels playing
BecomesAnyBusy(eng) ==
    /\ eng.events <= MaxEvents
    /\ current_track' = eng.current_track
    /\ is_playing' = eng.is_playing
    /\ sound_objects' = eng.sound_objects
    /\ channels' = eng.channels
    /\ events' = eng.events
    /\ audio_threads' = eng.audio_threads
\* ModaPlayerApp.open_file on a sequential container
SeqOpenFile ==
    /\ \E f \in SequentialLibrary : \E r \in {Load(f, cleanup(Player))} :
           /\ play_mode' = r.play_mode
           /\ tracks_meta' = r.tracks_meta
           /\ thumbnail_path' = r.thumbnail_path
           /\ temp_dir' = r.temp_dir
           /\ sys_tmp' = r.sys_tmp
           /\ load_result' = Result(r)
    /\ \E eng \in {stop(Engine)} : BecomesAnyBusy(eng)
    /\ last' = "load"
    /\ UNCHANGED codec_vars
SeqPlay ==
    /\ \E eng \in {play(Engine)} : BecomesAnyBusy(eng)
    /\ last' = "play"
    /\ UNCHANGED <<codec_vars, loader_vars>>
SeqStop ==
    /\ \E eng \in {stop(Engine)} : BecomesAnyBusy(eng)
    /\ last' = "stop"
    /\ UNCHANGED <<codec_vars, loader_vars>>
SeqPoll ==
    /\ is_playing
    /\ \E eng \in {check_events(Engine)} : BecomesAnyBusy(eng)
    /\ last' = "poll"
    /\ UNCHANGED <<codec_vars, loader_vars>>
SeqSoundEnds ==
    /\ \E c \in Busy(channels) : \E eng \in {SoundEnd(Engine, c)} : BecomesAnyBusy(eng)
    /\ last' = "end"
    /\ UNCHANGED <<codec_vars, loader_vars>>
ChannelNext ==
    \/ SeqOpenFile
    \/ SeqPlay
    \/ SeqStop
    \/ SeqPoll
    \/ SeqSoundEnds
ChannelSpec == Init /\ [][ChannelNext]_vars

\* C17: a sequential play() whose track at current_track loads while no
\* channel is free goes on to the next tracks as after a load failure; with
\* no channel free none of them starts, so the list is exhausted and
\* is_playing is false.
C17_NoFreeChannel ==
    [][(/\ last' = "play"
        /\ SequentialMode
        /\ current_track < TrackCount
        /\ SoundLoads(current_track + 1)
        /\ find_channel(channels) = 0)
        => (current_track' = TrackCount /\ ~is_playing')]_vars

\* C18: while a sequential session is active at most one channel plays.
C18_OneAtATime ==
    (SequentialMode /\ is_playing) => Cardinality(Busy(channels)) <= 1

\* C19: a poll that ends a sequential session, the playing track having
\* finished with no later track that loads, tears the session down as stop()
\* does: no sound handle is kept and current_track is 0.
C19_Teardown ==
    [][((\E n \in 1..MaxEvents : TrackFinished(n))
            /\ FirstLoadable(current_track + 2) = 0
            /\ last' = "poll")
        => (sound_objects' = <<>> /\ current_track' = 0)]_vars

\* C20: a sequential play() from any current_track stops at the first track
\* from there on that loads, or at len(tracks_meta) when none does, having
\* made one load attempt for each track it came to: at most
\* len(tracks_meta) - current_track of them.
C20_BoundedSkip ==
    [][(last' = "play" /\ SequentialMode /\ current_track <= TrackCount) =>
        /\ current_track' = IF FirstLoadable(current_track + 1) # 0
                            THEN FirstLoadable(current_track + 1) - 1
                            ELSE TrackCount
        /\ LoadAttempts(Engine) <= TrackCount - current_track
        /\ LoadAttempts(Engine) = (current_track' - current_track)
                                    + (IF current_track' < TrackCount THEN 1 ELSE 0)]_vars
\* a play() has passed over two tracks that fail and started the third
C20_Witness ==
    /\ last = "play"
    /\ SequentialMode
    /\ TrackCount = 3
    /\ ~SoundLoads(1) /\ ~SoundLoads(2)
    /\ current_track = 2
    /\ sound_objects = <<3>>
    /\ is_playing

\* C21: in every state 0 <= current_track <= len(tracks_meta), and while a
\* sequential session is active current_track < len(tracks_meta): the cursor
\* is on a track of the list.
C21_CursorBounds ==
    /\ 0 <= current_track
    /\ current_track <= TrackCount
    /\ (is_playing /\ SequentialMode) => current_track < TrackCount

(***************************************************************************)
(* The encode specification: save_moda again and again, over an output     *)
(* file that may exist already, with inputs some of which cannot be read.  *)
(***************************************************************************)
PathMissing == <<97, 47, 109>>    \* "a/m": no such file
EncodePaths == AudioPaths \cup {PathMissing}
EncodeTrackLists == UNION {[1..n -> EncodePaths] : n \in 1..MaxTracks}
EncodeThumbnails == Thumbnails \cup {PathMissing}
\* output_path written as soon as the call starts: a call that fails leaves
\* the magic in it
Output_opened_first(out, r) == IF r.ok THEN r.data ELSE MODA_MAGIC
\* output_path after build_moda_file (r is what it assembled): opened and
\* written last, after every open() of an input
Output(out, r) == IF r.ok THEN r.data ELSE out
\* ModaCompilerApp.save_moda on any inputs, over the output file as it is
SaveModa ==
    /\ \E trks \in EncodeTrackLists, mode \in PlayModes, thumb \in EncodeThumbnails :
        \E r \in {build_moda_file(trks, mode, thumb)} :
            /\ tracks' = trks
            /\ mode_arg' = mode
            /\ thumbnail' = thumb
            /\ output_file' = Output(output_file, r)
    /\ last' = "build"
    /\ UNCHANGED <<moda_file, output_dir, extract_result, loader_vars, engine_vars>>
EncodeNext == SaveModa
EncodeSpec == Init /\ [][EncodeNext]_vars

\* some file given to build_moda_file cannot be read
Unreadable(trks, thumb) ==
    \/ thumb # None /\ ~CanRead(thumb)
    \/ \E i \in 1..Len(trks) : ~CanRead(trks[i])

\* C22: a build_moda_file one of whose input files cannot be read leaves
\* output_path as it was, neither created nor modified.
C22_AllOrNothing ==
    [][(last' = "build" /\ Unreadable(tracks', thumbnail')) => output_file' = output_file]_vars
\* a build with an unreadable track has failed over the output of an earlier
\* build, which is still whole
C22_Witness ==
    /\ last = "build"
    /\ \E i \in 1..Len(tracks) : tracks[i] = PathMissing
    /\ output_file # None
    /\ Read(output_file, 0, Len(MODA_MAGIC)) = MODA_MAGIC
    /\ Len(output_file) > Len(MODA_MAGIC)

====
